---- MODULE Spec2Model ----
(***************************************************************************)
(* Model of plasma_post.py, the FreeCAD plasma postprocessor.              *)
(*                                                                         *)
(* The module-level configuration globals are the state that survives     *)
(* between calls; processArguments and export are the two entry points.   *)
(* A text is a sequence of tokens: NL is a line terminator, every other   *)
(* token is a run of characters holding no terminator.                     *)
(* FreeCAD.GuiUp is taken to be False (headless run), so export returns   *)
(* the generated text unedited; writing the file is not modelled.         *)
(***************************************************************************)
EXTENDS Integers, Sequences, FiniteSets, TLC

VARIABLES OUTPUT_COMMENTS, OUTPUT_HEADER, OUTPUT_LINE_NUMBERS, SHOW_EDITOR,
          PRECISION, PIERCE_DELAY, UNITS, UNIT_SPEED_FORMAT, UNIT_FORMAT,
          PREAMBLE, POSTAMBLE,
          op, argstring, objectslist, ret, gcode, runlog

cfgvars == <<OUTPUT_COMMENTS, OUTPUT_HEADER, OUTPUT_LINE_NUMBERS, SHOW_EDITOR,
             PRECISION, PIERCE_DELAY, UNITS, UNIT_SPEED_FORMAT, UNIT_FORMAT,
             PREAMBLE, POSTAMBLE>>

callvars == <<op, argstring, objectslist, ret, gcode, runlog>>

vars == <<OUTPUT_COMMENTS, OUTPUT_HEADER, OUTPUT_LINE_NUMBERS, SHOW_EDITOR,
          PRECISION, PIERCE_DELAY, UNITS, UNIT_SPEED_FORMAT, UNIT_FORMAT,
          PREAMBLE, POSTAMBLE,
          op, argstring, objectslist, ret, gcode, runlog>>

(***************************************************************************)
(* Bounds of the model.                                                    *)
(***************************************************************************)
\* options in one option string
MaxOpts == 2
\* objects in one object list
MaxObjs == 2
\* commands in one object list, over all its objects
MaxCmds == 2
\* commands in the path of a run that varies one path
MaxPath == 3

(***************************************************************************)
(* Texts.                                                                  *)
(***************************************************************************)
NL == "\n"

\* the token representation of a Python string given on the command line
TextOf(w) ==
    CASE w = ""             -> <<>>
      [] w = "M5\nM30\n"    -> <<"M5", NL, "M30", NL>>
      [] w = "G90\nG40"     -> <<"G90", NL, "G40">>
      [] OTHER              -> <<w>>

\* str.splitlines(keepends): the lines of a text, each a text of its own; a
\* terminator ends a line and is kept in it only when keepends is true; a
\* final line without terminator is a line too, an empty tail is not.
RECURSIVE SplitFrom(_, _, _, _)
SplitFrom(text, i, cur, keepends) ==
    IF i > Len(text)
    THEN IF cur = <<>> THEN <<>> ELSE <<cur>>
    ELSE IF text[i] = NL
         THEN <<IF keepends THEN Append(cur, NL) ELSE cur>>
                  \o SplitFrom(text, i + 1, <<>>, keepends)
         ELSE SplitFrom(text, i + 1, Append(cur, text[i]), keepends)

splitlines(text, keepends) == SplitFrom(text, 1, <<>>, keepends)

\* the lines of a generated text as a reader of the file sees them: one
\* entry per terminator, "" for a blank line
RECURSIVE LinesFrom(_, _, _)
LinesFrom(text, i, cur) ==
    IF i > Len(text)
    THEN IF cur = "" THEN <<>> ELSE <<cur>>
    ELSE IF text[i] = NL
         THEN <<cur>> \o LinesFrom(text, i + 1, "")
         ELSE LinesFrom(text, i + 1, cur \o text[i])

Lines(text) == LinesFrom(text, 1, "")

(***************************************************************************)
(* Module globals (lines 37-58).                                           *)
(***************************************************************************)
DefaultPreamble ==
    <<"G90 G54 G40 G49 G80", NL, "G21", NL, "(Setup for plasma cutting)", NL>>

DefaultPostamble ==
    <<"M8 (Torch OFF)", NL, "G0 X0 Y0 (Return home)", NL, "M30 (Program end)", NL>>

\* datetime.now() at import, a fixed text for the life of the module
now == "2024-01-01 12:00:00.000000"

\* PRECISION holds the digits as they are interpolated into the format
\* specification (the int 3 and the str '3' both give '.3f'); PIERCE_DELAY
\* holds the repr of the float as it is interpolated into the output.
DefaultGlobals ==
    [OUTPUT_COMMENTS     |-> TRUE,
     OUTPUT_HEADER       |-> TRUE,
     OUTPUT_LINE_NUMBERS |-> FALSE,
     SHOW_EDITOR         |-> TRUE,
     PRECISION           |-> "3",
     PIERCE_DELAY        |-> "0.5",
     UNITS               |-> "G21",
     UNIT_SPEED_FORMAT   |-> "mm/min",
     UNIT_FORMAT         |-> "mm",
     PREAMBLE            |-> DefaultPreamble,
     POSTAMBLE           |-> DefaultPostamble]

\* the globals of the current state as one value
Globals ==
    [OUTPUT_COMMENTS     |-> OUTPUT_COMMENTS,
     OUTPUT_HEADER       |-> OUTPUT_HEADER,
     OUTPUT_LINE_NUMBERS |-> OUTPUT_LINE_NUMBERS,
     SHOW_EDITOR         |-> SHOW_EDITOR,
     PRECISION           |-> PRECISION,
     PIERCE_DELAY        |-> PIERCE_DELAY,
     UNITS               |-> UNITS,
     UNIT_SPEED_FORMAT   |-> UNIT_SPEED_FORMAT,
     UNIT_FORMAT         |-> UNIT_FORMAT,
     PREAMBLE            |-> PREAMBLE,
     POSTAMBLE           |-> POSTAMBLE]

SetGlobals(g) ==
    /\ OUTPUT_COMMENTS'     = g.OUTPUT_COMMENTS
    /\ OUTPUT_HEADER'       = g.OUTPUT_HEADER
    /\ OUTPUT_LINE_NUMBERS' = g.OUTPUT_LINE_NUMBERS
    /\ SHOW_EDITOR'         = g.SHOW_EDITOR
    /\ PRECISION'           = g.PRECISION
    /\ PIERCE_DELAY'        = g.PIERCE_DELAY
    /\ UNITS'               = g.UNITS
    /\ UNIT_SPEED_FORMAT'   = g.UNIT_SPEED_FORMAT
    /\ UNIT_FORMAT'         = g.UNIT_FORMAT
    /\ PREAMBLE'            = g.PREAMBLE
    /\ POSTAMBLE'           = g.POSTAMBLE

(***************************************************************************)
(* The argument parser (lines 26-35) and shlex.split (line 66).            *)
(* An option string is the sequence of its words.                          *)
(***************************************************************************)
FlagOptions == {"--no-header", "--no-comments", "--line-numbers",
                "--no-show-editor", "--inches"}

ValueOptions == {"--precision", "--preamble", "--postamble", "--pierce-delay"}

\* a word that opens a quotation which is never closed
OpenQuote == "'"

\* shlex.split: raises ValueError on an unclosed quotation
shlex_split(s) ==
    IF \E i \in 1..Len(s) : s[i] = OpenQuote
    THEN [ok |-> FALSE, argv |-> <<>>]
    ELSE [ok |-> TRUE, argv |-> s]

\* argparse takes a word that starts with "-" for an option, never for a value
LooksLikeOption(w) == w \in FlagOptions \cup ValueOptions \cup {"--bogus"}

\* the namespace of an empty command line: None is written "", both are false
DefaultNamespace ==
    [no_header      |-> FALSE,
     no_comments    |-> FALSE,
     line_numbers   |-> FALSE,
     no_show_editor |-> FALSE,
     precision      |-> "3",
     preamble       |-> "",
     postamble      |-> "",
     inches         |-> FALSE,
     pierce_delay   |-> "0.5",
     ok             |-> TRUE]

SetFlag(ns, w) ==
    CASE w = "--no-header"      -> [ns EXCEPT !.no_header = TRUE]
      [] w = "--no-comments"    -> [ns EXCEPT !.no_comments = TRUE]
      [] w = "--line-numbers"   -> [ns EXCEPT !.line_numbers = TRUE]
      [] w = "--no-show-editor" -> [ns EXCEPT !.no_show_editor = TRUE]
      [] w = "--inches"         -> [ns EXCEPT !.inches = TRUE]

SetValue(ns, w, v) ==
    CASE w = "--precision"    -> [ns EXCEPT !.precision = v]
      [] w = "--preamble"     -> [ns EXCEPT !.preamble = v]
      [] w = "--postamble"    -> [ns EXCEPT !.postamble = v]
      [] w = "--pierce-delay" -> [ns EXCEPT !.pierce_delay = v]

\* parser.parse_args: an unknown option, a stray word or a missing value ends
\* in parser.error, which raises SystemExit
RECURSIVE parse_args(_, _, _)
parse_args(argv, i, ns) ==
    IF i > Len(argv) THEN ns
    ELSE IF argv[i] \in FlagOptions
         THEN parse_args(argv, i + 1, SetFlag(ns, argv[i]))
    ELSE IF argv[i] \in ValueOptions
         THEN IF i + 1 > Len(argv) \/ LooksLikeOption(argv[i + 1])
              THEN [ns EXCEPT !.ok = FALSE]
              ELSE parse_args(argv, i + 2, SetValue(ns, argv[i], argv[i + 1]))
    ELSE [ns EXCEPT !.ok = FALSE]

\* float(str): the literals the model uses, with the repr of their value
IsFloat(w) == w \in {"0.5", "2", "1.5"}

FloatRepr(w) ==
    CASE w = "0.5" -> "0.5"
      [] w = "2"   -> "2.0"
      [] w = "1.5" -> "1.5"

(***************************************************************************)
(* processArguments (lines 60-89).                                         *)
(***************************************************************************)
\* as ApplyInches, the unit tokens forgotten
ApplyInches_directiveOnly(g) == [g EXCEPT !.UNITS = "G20"]

\* lines 81-84
ApplyInches(g) ==
    [g EXCEPT !.UNITS = "G20", !.UNIT_SPEED_FORMAT = "in/min", !.UNIT_FORMAT = "in"]

\* lines 67-84: the assignments before the pierce delay, in order
ApplyOptions(g, args) ==
    LET g1 == IF args.no_header THEN [g EXCEPT !.OUTPUT_HEADER = FALSE] ELSE g
        g2 == IF args.no_comments THEN [g1 EXCEPT !.OUTPUT_COMMENTS = FALSE] ELSE g1
        g3 == IF args.line_numbers THEN [g2 EXCEPT !.OUTPUT_LINE_NUMBERS = TRUE] ELSE g2
        g4 == IF args.no_show_editor THEN [g3 EXCEPT !.SHOW_EDITOR = FALSE] ELSE g3
        g5 == IF args.precision # "" THEN [g4 EXCEPT !.PRECISION = args.precision] ELSE g4
        g6 == IF args.preamble # "" THEN [g5 EXCEPT !.PREAMBLE = TextOf(args.preamble)] ELSE g5
        g7 == IF args.postamble # "" THEN [g6 EXCEPT !.POSTAMBLE = TextOf(args.postamble)] ELSE g6
        g8 == IF args.inches THEN ApplyInches(g7) ELSE g7
    IN  g8

\* the whole function: the value returned and the globals it leaves behind.
\* An exception raised by shlex.split or parse_args leaves the globals as they
\* were; one raised by float() comes after the assignments of lines 67-84.
processArguments(g, s) ==
    LET sp   == shlex_split(s)
        args == parse_args(sp.argv, 1, DefaultNamespace)
    IN  IF ~sp.ok \/ ~args.ok
        THEN [ret |-> FALSE, g |-> g]
        ELSE LET g8 == ApplyOptions(g, args)
             IN  IF args.pierce_delay = ""
                 THEN [ret |-> TRUE, g |-> g8]
                 ELSE IF IsFloat(args.pierce_delay)
                      THEN [ret |-> TRUE,
                            g |-> [g8 EXCEPT !.PIERCE_DELAY = FloatRepr(args.pierce_delay)]]
                      ELSE [ret |-> FALSE, g |-> g8]

(***************************************************************************)
(* Numbers.  A raw parameter value is a non-negative integer; a converted  *)
(* value is the rational n/d.                                              *)
(***************************************************************************)
RECURSIVE Pow10(_)
Pow10(k) == IF k = 0 THEN 1 ELSE 10 * Pow10(k - 1)

RoundHalfEven(n, d) ==
    LET q == n \div d
        r == n % d
    IN  IF 2 * r > d \/ (2 * r = d /\ q % 2 = 1) THEN q + 1 ELSE q

RECURSIVE Digits(_, _)
Digits(v, width) ==
    IF width = 0 THEN "" ELSE Digits(v \div 10, width - 1) \o ToString(v % 10)

\* the format specification f".{PRECISION}f" is valid when PRECISION is digits
IsValidPrecision(p) == p \in {"0", "1", "2", "3"}

PrecisionDigits(p) ==
    CASE p = "0" -> 0
      [] p = "1" -> 1
      [] p = "2" -> 2
      [] p = "3" -> 3

\* format(float(n/d), precision_string)
Fixed(n, d, p) ==
    LET k == PrecisionDigits(p)
        s == RoundHalfEven(n * Pow10(k), d)
    IN  IF k = 0 THEN ToString(s)
        ELSE ToString(s \div Pow10(k)) \o "." \o Digits(s % Pow10(k), k)

\* Quantity(v, Length).getValueAs(unit): millimetres to the unit, as <<n, d>>
LengthAs(v, unit) == IF unit = "in" THEN <<v * 10, 254>> ELSE <<v, 1>>

\* Quantity(v, Velocity).getValueAs(unit): mm/s to the unit, as <<n, d>>
VelocityAs(v, unit) == IF unit = "in/min" THEN <<v * 600, 254>> ELSE <<v * 60, 1>>

RECURSIVE Join(_, _)
Join(strs, sep) ==
    IF strs = <<>> THEN ""
    ELSE IF Len(strs) = 1 THEN strs[1]
    ELSE strs[1] \o sep \o Join(Tail(strs), sep)

(***************************************************************************)
(* Commands: a name and the parameters in the order of the dictionary.     *)
(***************************************************************************)
Cmd(name, parameters) == [Name |-> name, Parameters |-> parameters]

HasParam(c, k) == \E i \in 1..Len(c.Parameters) : c.Parameters[i][1] = k

Param(c, k) ==
    c.Parameters[CHOOSE i \in 1..Len(c.Parameters) : c.Parameters[i][1] = k][2]

\* line 166
params == <<"X", "Y", "F", "I", "J">>

\* "CustomCommand" in command
IsCustom(command) == command \in {"CustomCommand", "CustomCommandG1", "CustomCommandFoo"}

\* line 177
IsSpecial(command) == command \in {"M100", "M101"}

\* as IsIgnored, M3 forgotten
IsIgnored_noSpindleOn(command) == command \in {"M4", "M5", "G17", "G18", "G19", "G43"}

\* line 187
IsIgnored(command) == command \in {"M3", "M4", "M5", "G17", "G18", "G19", "G43"}

TorchOn == "M7 (Torch ON)"
TorchOff == "M8 (Torch OFF)"
\* as Dwell, the delay written as the default
Dwell_defaultDelay(g) == "G4 P0.5 (Pierce delay)"

Dwell(g) == "G4 P" \o g.PIERCE_DELAY \o " (Pierce delay)"

\* lines 174 and 180: every parameter, in the command's own order
RECURSIVE ParamStrs(_, _, _)
ParamStrs(parameters, i, g) ==
    IF i > Len(parameters) THEN <<>>
    ELSE <<parameters[i][1] \o Fixed(parameters[i][2], 1, g.PRECISION)>>
             \o ParamStrs(parameters, i + 1, g)

\* as MoveStrs, the test of line 196 missing
RECURSIVE MoveStrs_anySpeed(_, _, _)
MoveStrs_anySpeed(c, i, g) ==
    IF i > Len(params) THEN <<>>
    ELSE LET param == params[i]
             rest  == MoveStrs_anySpeed(c, i + 1, g)
         IN  IF ~HasParam(c, param) THEN rest
             ELSE IF param = "F"
                  THEN LET speed == VelocityAs(Param(c, "F"), g.UNIT_SPEED_FORMAT)
                       IN  <<param \o Fixed(speed[1], speed[2], g.PRECISION)>> \o rest
                  ELSE LET pos == LengthAs(Param(c, param), g.UNIT_FORMAT)
                       IN  <<param \o Fixed(pos[1], pos[2], g.PRECISION)>> \o rest

\* lines 191-200: the tracked parameters, in the fixed order
RECURSIVE MoveStrs(_, _, _)
MoveStrs(c, i, g) ==
    IF i > Len(params) THEN <<>>
    ELSE LET param == params[i]
             rest  == MoveStrs(c, i + 1, g)
         IN  IF ~HasParam(c, param) THEN rest
             ELSE IF param = "F"
                  THEN LET speed == VelocityAs(Param(c, "F"), g.UNIT_SPEED_FORMAT)
                       IN  IF speed[1] > 0
                           THEN <<param \o Fixed(speed[1], speed[2], g.PRECISION)>> \o rest
                           ELSE rest
                  ELSE LET pos == LengthAs(Param(c, param), g.UNIT_FORMAT)
                       IN  <<param \o Fixed(pos[1], pos[2], g.PRECISION)>> \o rest

\* the command makes a format() call: with PRECISION not a number of digits
\* that call raises ValueError
Formats(c) ==
    IF IsCustom(c.Name) \/ IsSpecial(c.Name) THEN c.Parameters # <<>>
    ELSE IF IsIgnored(c.Name) THEN FALSE
    ELSE \E i \in 1..Len(params) :
            /\ HasParam(c, params[i])
            /\ params[i] = "F" => Param(c, "F") > 0

(***************************************************************************)
(* parse (lines 157-224).  The state of the loop is the text so far and    *)
(* the local variable cutting.                                             *)
(***************************************************************************)
\* as ParseInit, the torch taken to be engaged
ParseInit_engaged == [out |-> <<>>, cutting |-> TRUE]

\* lines 160-164
ParseInit == [out |-> <<>>, cutting |-> FALSE]

\* as TorchControl, line 206 missing
TorchControl_noEngage(st, command, g) ==
    IF command \in {"G1", "G2", "G3"} /\ ~st.cutting
    THEN [out |-> st.out \o <<TorchOn, NL, Dwell(g), NL>>, cutting |-> st.cutting]
    ELSE IF command = "G0" /\ st.cutting
         THEN [out |-> st.out \o <<TorchOff, NL>>, cutting |-> FALSE]
         ELSE st

\* as TorchControl, line 208 missing
TorchControl_silentRapid(st, command, g) ==
    IF command \in {"G1", "G2", "G3"} /\ ~st.cutting
    THEN [out |-> st.out \o <<TorchOn, NL, Dwell(g), NL>>, cutting |-> TRUE]
    ELSE IF command = "G0" /\ st.cutting
         THEN [out |-> st.out, cutting |-> FALSE]
         ELSE st

\* as TorchControl, lines 207-209 missing
TorchControl_noRapidOff(st, command, g) ==
    IF command \in {"G1", "G2", "G3"} /\ ~st.cutting
    THEN [out |-> st.out \o <<TorchOn, NL, Dwell(g), NL>>, cutting |-> TRUE]
    ELSE st

\* as TorchControl, line 209 missing
TorchControl_staleFlag(st, command, g) ==
    IF command \in {"G1", "G2", "G3"} /\ ~st.cutting
    THEN [out |-> st.out \o <<TorchOn, NL, Dwell(g), NL>>, cutting |-> TRUE]
    ELSE IF command = "G0" /\ st.cutting
         THEN [out |-> st.out \o <<TorchOff, NL>>, cutting |-> st.cutting]
         ELSE st

\* lines 202-209
TorchControl(st, command, g) ==
    IF command \in {"G1", "G2", "G3"} /\ ~st.cutting
    THEN [out |-> st.out \o <<TorchOn, NL, Dwell(g), NL>>, cutting |-> TRUE]
    ELSE IF command = "G0" /\ st.cutting
         THEN [out |-> st.out \o <<TorchOff, NL>>, cutting |-> FALSE]
         ELSE st

\* lines 211-213
OutputLine(st, command, outstring) ==
    IF outstring # <<>>
    THEN [st EXCEPT !.out = @ \o <<command \o " " \o Join(outstring, " "), NL>>]
    ELSE st

\* as ParseCommand, the line of a special command written under line 179
ParseCommand_specialNeedsParameters(st, c, g) ==
    LET command == c.Name
    IN  IF IsCustom(command)
        THEN [st EXCEPT !.out = @ \o
                <<"(Custom: " \o command \o " "
                     \o Join(ParamStrs(c.Parameters, 1, g), " ") \o ")", NL>>]
        ELSE IF IsSpecial(command)
        THEN IF c.Parameters # <<>>
             THEN [st EXCEPT !.out = @ \o
                     <<command \o " " \o Join(ParamStrs(c.Parameters, 1, g), " ")
                         \o " (Special plasma command)", NL>>]
             ELSE st
        ELSE IF IsIgnored(command)
        THEN st
        ELSE OutputLine(TorchControl(st, command, g), command, MoveStrs(c, 1, g))

\* lines 169-218: one pass of the loop body
ParseCommand(st, c, g) ==
    LET command == c.Name
    IN  IF IsCustom(command)
        THEN [st EXCEPT !.out = @ \o
                <<"(Custom: " \o command \o " "
                     \o Join(ParamStrs(c.Parameters, 1, g), " ") \o ")", NL>>]
        ELSE IF IsSpecial(command)
        THEN [st EXCEPT !.out = @ \o
                <<command
                    \o (IF c.Parameters # <<>>
                        THEN " " \o Join(ParamStrs(c.Parameters, 1, g), " ")
                        ELSE "")
                    \o " (Special plasma command)", NL>>]
        ELSE IF IsIgnored(command)
        THEN st
        ELSE OutputLine(TorchControl(st, command, g), command, MoveStrs(c, 1, g))

RECURSIVE ParseLoop(_, _, _, _)
ParseLoop(commands, i, st, g) ==
    IF i > Len(commands) THEN st
    ELSE ParseLoop(commands, i + 1, ParseCommand(st, commands[i], g), g)

\* as ParseEnd, the final check missing
ParseEnd_noClosure(st) == st.out

\* what each pass of the loop did: the command, the value of cutting before
\* and after it, and the lines it added to the text
RECURSIVE ParseSteps(_, _, _, _)
ParseSteps(commands, i, st, g) ==
    IF i > Len(commands) THEN <<>>
    ELSE LET nx == ParseCommand(st, commands[i], g)
         IN  <<[command |-> commands[i],
                before  |-> st.cutting,
                cutting |-> nx.cutting,
                emitted |-> Lines(SubSeq(nx.out, Len(st.out) + 1, Len(nx.out)))]>>
                \o ParseSteps(commands, i + 1, nx, g)

\* as ParseEnd, the torch-off added whatever the torch state
ParseEnd_closesAlways(st) == st.out \o <<TorchOff, NL>>

\* lines 220-224
ParseEnd(st) == IF st.cutting THEN st.out \o <<TorchOff, NL>> ELSE st.out

\* the text returned, with what the loop went through: the value of cutting
\* before the first and after the last command, and whether the final
\* torch-off was added
parse(pathobj, g) ==
    LET raised == ~IsValidPrecision(g.PRECISION)
                    /\ \E i \in 1..Len(pathobj.Commands) : Formats(pathobj.Commands[i])
        st == IF raised THEN ParseInit
              ELSE ParseLoop(pathobj.Commands, 1, ParseInit, g)
    IN  [out     |-> ParseEnd(st),
         start   |-> ParseInit.cutting,
         end     |-> st.cutting,
         closed  |-> Len(ParseEnd(st)) > Len(st.out),
         first   |-> IF pathobj.Commands = <<>> THEN "" ELSE pathobj.Commands[1].Name,
         steps   |-> IF raised THEN <<>>
                     ELSE ParseSteps(pathobj.Commands, 1, ParseInit, g),
         raised  |-> raised]

(***************************************************************************)
(* export (lines 91-155).                                                  *)
(***************************************************************************)
\* an object: Active and Base are "absent" when the object has no such
\* attribute; Base is "plain" for a parent without an Active attribute
Obj(label, hasPath, active, base, commands) ==
    [Label |-> label, hasPath |-> hasPath, Active |-> active, Base |-> base,
     Commands |-> commands]

\* as Skipped, line 119 missing
Skipped_ownFlagOnly(obj) == obj.Active = "False"

\* lines 117-120
Skipped(obj) == obj.Active = "False" \/ obj.Base = "False"

\* lines 105-108
Header(g) ==
    IF g.OUTPUT_HEADER
    THEN <<"(Exported by FreeCAD Plasma Postprocessor - " \o now \o ")", NL,
           "(Units: " \o (IF g.UNITS = "G20" THEN "inches" ELSE "mm") \o ")", NL,
           "(Pierce delay: " \o g.PIERCE_DELAY \o "s)", NL>>
    ELSE <<>>

\* each line of a sequence of lines followed by a terminator (lines 113, 134)
RECURSIVE EmitLines(_, _)
EmitLines(lines, i) ==
    IF i > Len(lines) THEN <<>>
    ELSE lines[i] \o <<NL>> \o EmitLines(lines, i + 1)

\* lines 110-114
PreamblePart(g) ==
    (IF g.OUTPUT_COMMENTS THEN <<"(begin preamble)", NL>> ELSE <<>>)
        \o EmitLines(splitlines(g.PREAMBLE, FALSE), 1)
        \o <<g.UNITS, NL>>

\* lines 131-134
PostamblePart(g) ==
    (IF g.OUTPUT_COMMENTS THEN <<"(begin postamble)", NL>> ELSE <<>>)
        \o EmitLines(splitlines(g.POSTAMBLE, TRUE), 1)

\* lines 122-129: the text of one object that is not skipped
ObjectPart(obj, g) ==
    (IF g.OUTPUT_COMMENTS
     THEN <<"(begin operation: " \o obj.Label \o ")", NL,
            "(machine units: " \o g.UNIT_SPEED_FORMAT \o ")", NL>>
     ELSE <<>>)
        \o parse(obj, g).out
        \o (IF g.OUTPUT_COMMENTS
            THEN <<"(finish operation: " \o obj.Label \o ")", NL>>
            ELSE <<>>)

\* lines 116-129: the loop over the objects
RECURSIVE ObjectsPart(_, _, _)
ObjectsPart(objs, i, g) ==
    IF i > Len(objs) THEN <<>>
    ELSE IF Skipped(objs[i]) THEN ObjectsPart(objs, i + 1, g)
    ELSE ObjectPart(objs[i], g) \o ObjectsPart(objs, i + 1, g)

\* the calls of parse the loop makes, in order
RECURSIVE ParseLog(_, _, _)
ParseLog(objs, i, g) ==
    IF i > Len(objs) THEN <<>>
    ELSE IF Skipped(objs[i]) THEN ParseLog(objs, i + 1, g)
    ELSE <<[parse(objs[i], g) EXCEPT !.out = Lines(@)]>> \o ParseLog(objs, i + 1, g)

\* as Translate, the path check made for the objects that are not skipped
Translate_checksActiveOnly(g, objs) ==
    IF \E i \in 1..Len(objs) : ~Skipped(objs[i]) /\ ~objs[i].hasPath
    THEN [ret |-> "None", gcode |-> <<>>, log |-> <<>>]
    ELSE LET log == ParseLog(objs, 1, g)
         IN  IF \E k \in 1..Len(log) : log[k].raised
             THEN [ret |-> "raise", gcode |-> <<>>, log |-> <<>>]
             ELSE [ret   |-> "text",
                   gcode |-> Header(g) \o PreamblePart(g) \o ObjectsPart(objs, 1, g)
                                \o PostamblePart(g),
                   log   |-> log]

\* lines 95-155 under globals g: what export returns once the arguments are
\* processed.  An exception in parse leaves export without a return value.
Translate(g, objs) ==
    IF \E i \in 1..Len(objs) : ~objs[i].hasPath
    THEN [ret |-> "None", gcode |-> <<>>, log |-> <<>>]
    ELSE LET log == ParseLog(objs, 1, g)
         IN  IF \E k \in 1..Len(log) : log[k].raised
             THEN [ret |-> "raise", gcode |-> <<>>, log |-> <<>>]
             ELSE [ret   |-> "text",
                   gcode |-> Header(g) \o PreamblePart(g) \o ObjectsPart(objs, 1, g)
                                \o PostamblePart(g),
                   log   |-> log]

\* the whole function: globals left behind, value returned
export(g, objs, s) ==
    LET pa == processArguments(g, s)
    IN  IF ~pa.ret
        THEN [g |-> pa.g, ret |-> "None", gcode |-> <<>>, log |-> <<>>]
        ELSE LET t == Translate(pa.g, objs)
             IN  [g |-> pa.g, ret |-> t.ret, gcode |-> t.gcode, log |-> t.log]

(***************************************************************************)
(* Inputs.                                                                 *)
(***************************************************************************)
\* the options an option string is made of
Options ==
    << <<"--no-header">>,
       <<"--inches">>,
       <<"--precision", "2">>,
       <<"--preamble", "G90\nG40">>,
       <<"--postamble", "M5\nM30\n">>,
       <<"--pierce-delay", "abc">>,
       <<"--bogus">> >>

RECURSIVE Pick(_, _)
Pick(S, i) ==
    IF i > Len(Options) THEN <<>>
    ELSE (IF i \in S THEN Options[i] ELSE <<>>) \o Pick(S, i + 1)

\* the option strings of at most MaxOpts options
ArgStrings ==
    { Pick(S, 1) : S \in { T \in SUBSET (1..Len(Options)) : Cardinality(T) <= MaxOpts } }

\* the commands of the paths
Commands ==
    { Cmd("G0", << <<"X", 0>>, <<"Y", 0>> >>),
      Cmd("G1", << <<"X", 10>>, <<"Y", 10>>, <<"F", 5>> >>),
      Cmd("M5", <<>>) }

RECURSIVE SeqsUpTo(_, _)
SeqsUpTo(S, n) ==
    IF n = 0 THEN {<<>>}
    ELSE LET shorter == SeqsUpTo(S, n - 1)
         IN  shorter \cup { Append(q, x) : q \in shorter, x \in S }

Paths == SeqsUpTo(Commands, MaxCmds)

\* objects with a path: active, inactive, with an inactive parent; and two
\* objects without a path.  Labels are given by the position in the list.
Objects ==
    { Obj("", TRUE, a[1], a[2], cmds) :
        a \in { <<"True", "absent">>, <<"False", "absent">>, <<"absent", "False">> },
        cmds \in Paths }
    \cup { Obj("", FALSE, "True", "absent", <<>>), Obj("", FALSE, "False", "absent", <<>>) }

Labelled(objs) ==
    [i \in 1..Len(objs) |-> [objs[i] EXCEPT !.Label = "Op" \o ToString(i)]]

\* the lists of at most n objects that hold at most c commands in all
RECURSIVE ListsUpTo(_, _)
ListsUpTo(n, c) ==
    IF n = 0 THEN {<<>>}
    ELSE {<<>>} \cup UNION { { <<obj>> \o rest : rest \in ListsUpTo(n - 1, c - Len(obj.Commands)) } :
                                obj \in { o \in Objects : Len(o.Commands) <= c } }

ObjLists == { Labelled(objs) : objs \in ListsUpTo(MaxObjs, MaxCmds) }

\* the object lists of the runs that vary the options
CutObject ==
    Obj("Op1", TRUE, "True", "absent",
        << Cmd("G1", << <<"X", 10>>, <<"Y", 10>>, <<"F", 5>> >>) >>)

RunObjLists == { <<>>, <<CutObject>> }

\* the option strings of the runs that vary the objects
EngineArgStrings ==
    { <<>>,
      <<"--no-comments">>,
      <<"--line-numbers", "--no-show-editor", "--inches", "--postamble", "M30",
        "--pierce-delay", "2">> }

\* the options of the runs that vary the options only
AllOptions ==
    << <<"--no-header">>,
       <<"--no-comments">>,
       <<"--line-numbers">>,
       <<"--no-show-editor">>,
       <<"--inches">>,
       <<"--precision", "2">>,
       <<"--precision", "abc">>,
       <<"--preamble", "G90\nG40">>,
       <<"--postamble", "M5\nM30\n">>,
       <<"--postamble", "M30">>,
       <<"--pierce-delay", "2">>,
       <<"--pierce-delay", "abc">>,
       <<"--bogus">>,
       <<OpenQuote>> >>

RECURSIVE PickFrom(_, _, _)
PickFrom(opts, S, i) ==
    IF i > Len(opts) THEN <<>>
    ELSE (IF i \in S THEN opts[i] ELSE <<>>) \o PickFrom(opts, S, i + 1)

AllArgStrings ==
    { PickFrom(AllOptions, S, 1) :
        S \in { T \in SUBSET (1..Len(AllOptions)) : Cardinality(T) <= MaxOpts } }

\* the commands of the runs that vary one path: rapid and cutting motions
\* with and without parameters, ignored, special, custom and unknown names
PathCommands ==
    { Cmd("G0", << <<"X", 0>>, <<"Y", 0>> >>),
      Cmd("G0", <<>>),
      Cmd("G1", << <<"X", 10>>, <<"Y", 10>>, <<"F", 5>> >>),
      Cmd("G1", <<>>),
      Cmd("G1", << <<"F", 0>> >>),
      Cmd("G2", << <<"X", 10>>, <<"I", 5>>, <<"J", 0>> >>),
      Cmd("G3", << <<"F", 5>>, <<"Y", 10>> >>),
      Cmd("M3", << <<"X", 10>> >>),
      Cmd("G17", <<>>),
      Cmd("M100", <<>>),
      Cmd("M101", << <<"P", 2>> >>),
      Cmd("CustomCommandG1", << <<"A", 1>>, <<"X", 10>> >>),
      Cmd("G81", << <<"X", 10>> >>) }

PathObjLists ==
    { <<Obj("Op1", TRUE, "True", "absent", cmds)>> : cmds \in SeqsUpTo(PathCommands, MaxPath) }

PathArgStrings ==
    { <<>>,
      <<"--no-comments", "--inches", "--precision", "2", "--pierce-delay", "2">> }

(***************************************************************************)
(* The state machine.                                                      *)
(***************************************************************************)
\* the module as loaded, no call made
Init ==
    /\ OUTPUT_COMMENTS     = DefaultGlobals.OUTPUT_COMMENTS
    /\ OUTPUT_HEADER       = DefaultGlobals.OUTPUT_HEADER
    /\ OUTPUT_LINE_NUMBERS = DefaultGlobals.OUTPUT_LINE_NUMBERS
    /\ SHOW_EDITOR         = DefaultGlobals.SHOW_EDITOR
    /\ PRECISION           = DefaultGlobals.PRECISION
    /\ PIERCE_DELAY        = DefaultGlobals.PIERCE_DELAY
    /\ UNITS               = DefaultGlobals.UNITS
    /\ UNIT_SPEED_FORMAT   = DefaultGlobals.UNIT_SPEED_FORMAT
    /\ UNIT_FORMAT         = DefaultGlobals.UNIT_FORMAT
    /\ PREAMBLE            = DefaultGlobals.PREAMBLE
    /\ POSTAMBLE           = DefaultGlobals.POSTAMBLE
    /\ op = "load"
    /\ argstring = <<>>
    /\ objectslist = <<>>
    /\ ret = "None"
    /\ gcode = <<>>
    /\ runlog = <<>>

\* a call of processArguments(s)
ProcessArguments(s) ==
    LET r == processArguments(Globals, s)
    IN  /\ SetGlobals(r.g)
        /\ op' = "processArguments"
        /\ argstring' = s
        /\ objectslist' = <<>>
        /\ ret' = IF r.ret THEN "True" ELSE "False"
        /\ gcode' = <<>>
        /\ runlog' = <<>>

\* a call of export(objs, "-", s)
Export(objs, s) ==
    LET r == export(Globals, objs, s)
    IN  /\ SetGlobals(r.g)
        /\ op' = "export"
        /\ argstring' = s
        /\ objectslist' = objs
        /\ ret' = r.ret
        /\ gcode' = r.gcode
        /\ runlog' = r.log

CallExport == \E objs \in RunObjLists, s \in ArgStrings : Export(objs, s)

CallProcessArguments == \E s \in ArgStrings : ProcessArguments(s)

Next == CallExport \/ CallProcessArguments

\* any sequence of processArguments and export calls
Spec == Init /\ [][Next]_vars

\* any sequence of export runs
SpecRuns == Init /\ [][CallExport]_vars

\* one export run on the module as loaded, the inputs drawn at the start
InitEngine ==
    /\ Init!1 /\ Init!2 /\ Init!3 /\ Init!4 /\ Init!5 /\ Init!6
    /\ Init!7 /\ Init!8 /\ Init!9 /\ Init!10 /\ Init!11
    /\ op = "pending"
    /\ argstring \in EngineArgStrings
    /\ objectslist \in ObjLists
    /\ ret = "None"
    /\ gcode = <<>>
    /\ runlog = <<>>

RunExport ==
    LET r == export(Globals, objectslist, argstring)
    IN  /\ op = "pending"
        /\ SetGlobals(r.g)
        /\ op' = "export"
        /\ UNCHANGED <<argstring, objectslist>>
        /\ ret' = r.ret
        /\ gcode' = r.gcode
        /\ runlog' = r.log

SpecEngine == InitEngine /\ [][RunExport]_vars

\* one export run on the module as loaded, over the option strings
InitOptions ==
    /\ Init!1 /\ Init!2 /\ Init!3 /\ Init!4 /\ Init!5 /\ Init!6
    /\ Init!7 /\ Init!8 /\ Init!9 /\ Init!10 /\ Init!11
    /\ op = "pending"
    /\ argstring \in AllArgStrings
    /\ objectslist \in RunObjLists
    /\ ret = "None"
    /\ gcode = <<>>
    /\ runlog = <<>>

SpecOptions == InitOptions /\ [][RunExport]_vars

\* one export run on the module as loaded, over the paths of one object
InitPaths ==
    /\ Init!1 /\ Init!2 /\ Init!3 /\ Init!4 /\ Init!5 /\ Init!6
    /\ Init!7 /\ Init!8 /\ Init!9 /\ Init!10 /\ Init!11
    /\ op = "pending"
    /\ argstring \in PathArgStrings
    /\ objectslist \in PathObjLists
    /\ ret = "None"
    /\ gcode = <<>>
    /\ runlog = <<>>

SpecPaths == InitPaths /\ [][RunExport]_vars

(***************************************************************************)
(* Properties.                                                             *)
(***************************************************************************)
Count(lines, l) == Cardinality({ i \in 1..Len(lines) : lines[i] = l })

CountUpTo(lines, k, l) == Cardinality({ i \in 1..k : lines[i] = l })

\* an export call has returned its text
Returned == op = "export" /\ ret = "text"

\* an object is inactive: its own flag or its parent's flag is false
Inactive(obj) == obj.Active = "False" \/ obj.Base = "False"

\* the list without its i-th object
Without(objs, i) == SubSeq(objs, 1, i - 1) \o SubSeq(objs, i + 1, Len(objs))

CuttingNames == {"G1", "G2", "G3"}

\* C1: at every prefix of the text returned by export, the torch-on lines
\* exceed the torch-off lines by at most 1.
C1_TorchExcessAtMostOne ==
    Returned =>
        LET ls == Lines(gcode)
        IN  \A k \in 1..Len(ls) :
                CountUpTo(ls, k, TorchOn) - CountUpTo(ls, k, TorchOff) <= 1

\* a run that lit the torch twice, the second time after it was put out
C1_Witness ==
    /\ Returned
    /\ LET ls == Lines(gcode)
       IN  /\ Count(ls, TorchOn) >= 2
           /\ \E k \in 1..Len(ls) :
                 CountUpTo(ls, k, TorchOn) - CountUpTo(ls, k, TorchOff) = 1

\* C2 as stated: in the complete text returned by export, preamble and
\* postamble included, the torch-on lines and the torch-off lines are equal
\* in number.
C2_CountsEqualInOutput ==
    Returned => Count(Lines(gcode), TorchOn) = Count(Lines(gcode), TorchOff)

\* C2 as amended: the torch-on and torch-off lines are equal in number in the
\* text of every object; the complete text holds, besides these, the torch
\* lines of the preamble and of the postamble, so that it has as many
\* torch-off lines more as these two texts have.
C2_CountsEqualPerObject ==
    Returned =>
        LET ls   == Lines(gcode)
            fixed == Lines(PREAMBLE) \o Lines(POSTAMBLE)
        IN  /\ \A k \in 1..Len(runlog) :
                  Count(runlog[k].out, TorchOn) = Count(runlog[k].out, TorchOff)
            /\ Count(ls, TorchOff) - Count(ls, TorchOn)
                  = Count(fixed, TorchOff) - Count(fixed, TorchOn)

\* a run under the default postamble with an object that lit the torch
C2_Witness ==
    /\ Returned
    /\ POSTAMBLE = DefaultPostamble
    /\ \E k \in 1..Len(runlog) : Count(runlog[k].out, TorchOn) >= 1
    /\ Count(Lines(gcode), TorchOff) = Count(Lines(gcode), TorchOn) + 1

\* C3 as stated: the torch state at the start of an active object is the one
\* after the last command of the active object before it, and an object
\* that starts with a cutting motion after one that ended with the torch
\* engaged gets no torch-on line.
C3_TorchCarriedAcrossObjects ==
    Returned =>
        \A k \in 1..(Len(runlog) - 1) :
            /\ runlog[k + 1].start = runlog[k].end
            /\ (runlog[k].end /\ runlog[k + 1].first \in CuttingNames)
                  => runlog[k + 1].out[1] # TorchOn

\* C3 as amended: every active object starts with the torch disengaged,
\* whatever the state after the last command of the object before it; an
\* object that starts with a cutting motion gets its own torch-on line and
\* dwell line first.
C3_TorchResetPerObject ==
    Returned =>
        \A k \in 1..Len(runlog) :
            /\ runlog[k].start = FALSE
            /\ runlog[k].first \in CuttingNames
                  => /\ Len(runlog[k].out) >= 2
                     /\ runlog[k].out[1] = TorchOn
                     /\ runlog[k].out[2] = Dwell(Globals)

\* an object that ends with the torch engaged, followed by one that starts
\* with a cutting motion
C3_Witness ==
    /\ Returned
    /\ \E k \in 1..(Len(runlog) - 1) :
          runlog[k].end /\ runlog[k + 1].first \in CuttingNames

\* C4 as stated: the final torch-off of the safety check is emitted only
\* after the commands of the last object, hence at most once in a run.
C4_ClosureOnlyAfterLastObject ==
    Returned =>
        \A k \in 1..Len(runlog) : runlog[k].closed => k = Len(runlog)

\* C4 as amended: the final torch-off is emitted at most once for every
\* object, after the commands of that object, exactly when the torch is
\* still engaged then, whether the object is the last one or not.
C4_ClosurePerObject ==
    Returned =>
        \A k \in 1..Len(runlog) :
            LET out == runlog[k].out
            IN  /\ runlog[k].closed = runlog[k].end
                /\ runlog[k].end => (out # <<>> /\ out[Len(out)] = TorchOff)
                /\ Count(out, TorchOff) = Count(out, TorchOn)

\* an object that is not the last one and ends with the torch engaged
C4_Witness ==
    /\ Returned
    /\ \E k \in 1..(Len(runlog) - 1) : runlog[k].closed

\* C5 as stated: an inactive object contributes nothing; what export returns
\* is what it returns for the list without that object.
C5_InactiveObjectRemoved ==
    (op = "export") =>
        \A i \in 1..Len(objectslist) :
            Inactive(objectslist[i]) =>
                LET t == Translate(Globals, Without(objectslist, i))
                IN  ret = t.ret /\ gcode = t.gcode

\* C5 as amended: an inactive object that has a path contributes nothing:
\* what export returns is what it returns for the list without that object,
\* and no line of the text names the object.
C5_InactivePathObjectRemoved ==
    (op = "export") =>
        \A i \in 1..Len(objectslist) :
            (Inactive(objectslist[i]) /\ objectslist[i].hasPath) =>
                LET t  == Translate(Globals, Without(objectslist, i))
                    ls == Lines(gcode)
                IN  /\ ret = t.ret /\ gcode = t.gcode
                    /\ \A j \in 1..Len(ls) :
                          /\ ls[j] # "(begin operation: " \o objectslist[i].Label \o ")"
                          /\ ls[j] # "(finish operation: " \o objectslist[i].Label \o ")"

\* a run with comments enabled over an inactive object that has commands,
\* and an active one
C5_Witness ==
    /\ Returned
    /\ OUTPUT_COMMENTS
    /\ runlog # <<>>
    /\ \E i \in 1..Len(objectslist) :
          /\ objectslist[i].Base = "False"
          /\ objectslist[i].Commands # <<>>

\* C6: a call of processArguments that returns False leaves every
\* configuration variable as it was before the call.
C6_AllOrNothing ==
    [][(op' = "processArguments" /\ ret' = "False") => UNCHANGED cfgvars]_vars

\* C7: after an export run given no options the configuration is the default
\* one, whatever export runs came before.
C7_NoOptionsGivesDefaults ==
    (op = "export" /\ argstring = <<>>) => Globals = DefaultGlobals

\* C8: what an export call returns depends on its option string and object
\* list only: it is what the same call returns on the module as loaded,
\* whatever calls were made before.
C8_Deterministic ==
    (op = "export") =>
        LET r == export(DefaultGlobals, objectslist, argstring)
        IN  ret = r.ret /\ gcode = r.gcode

\* C9: the unit directive, the length unit and the speed unit are of one
\* system in every state, and the unit directive line of a returned text is
\* the one of that system.
C9_UnitsAgree ==
    /\ <<UNITS, UNIT_FORMAT, UNIT_SPEED_FORMAT>>
          \in { <<"G21", "mm", "mm/min">>, <<"G20", "in", "in/min">> }
    /\ Returned =>
          LET ls == Lines(gcode)
              at == (IF OUTPUT_HEADER THEN 3 ELSE 0) + (IF OUTPUT_COMMENTS THEN 1 ELSE 0)
                       + Len(splitlines(PREAMBLE, FALSE)) + 1
          IN  ls[at] = (IF UNIT_FORMAT = "in" THEN "G20" ELSE "G21")

\* a run in imperial mode that translated an object
C9_Witness ==
    /\ Returned
    /\ UNITS = "G20"
    /\ runlog # <<>>

\* C10: the text returned ends with the lines of the postamble, each followed
\* by one terminator, as the lines of the preamble are.
C10_PostambleVerbatim ==
    Returned =>
        gcode = Header(Globals) \o PreamblePart(Globals)
                   \o ObjectsPart(objectslist, 1, Globals)
                   \o (IF OUTPUT_COMMENTS THEN <<"(begin postamble)", NL>> ELSE <<>>)
                   \o EmitLines(splitlines(POSTAMBLE, FALSE), 1)

\* the text export builds from its parts, before any numbering of its lines
Content(g, objs) ==
    Lines(Header(g) \o PreamblePart(g) \o ObjectsPart(objs, 1, g) \o PostamblePart(g))

\* C11: with line numbering enabled every non-blank line of the text
\* returned starts with a sequential token: each is a token followed by the
\* line itself, hence longer than the line export builds for that place.
C11_LinesNumbered ==
    (Returned /\ OUTPUT_LINE_NUMBERS) =>
        LET ls   == Lines(gcode)
            body == Content(Globals, objectslist)
        IN  /\ Len(ls) = Len(body)
            /\ \A j \in 1..Len(ls) : ls[j] # "" => Len(ls[j]) > Len(body[j])

\* the words the model uses that are numeric literals
NumericLiteral(w) == w \in {"0", "1", "2", "3", "0.5", "1.5"}

\* the option string gives the precision or the pierce delay a value that is
\* not a numeric literal
BadNumericOption(s) ==
    \E i \in 1..(Len(s) - 1) :
        /\ s[i] \in {"--precision", "--pierce-delay"}
        /\ ~LooksLikeOption(s[i + 1])
        /\ ~NumericLiteral(s[i + 1])

\* C12: an export run whose precision or pierce-delay option is not a
\* numeric literal returns no text and processes no object.
C12_BadNumberAborts ==
    (op = "export" /\ BadNumericOption(argstring)) => (ret = "None" /\ runlog = <<>>)

\* C13: when an object of the list has no path, whether active or not and
\* wherever it stands, export returns no text at all and translates nothing.
C13_NotAPathAborts ==
    (op = "export" /\ \E i \in 1..Len(objectslist) : ~objectslist[i].hasPath)
        => (ret = "None" /\ gcode = <<>> /\ runlog = <<>>)

\* a run over an active object with commands followed by an inactive object
\* without a path
C13_Witness ==
    /\ op = "export"
    /\ Len(objectslist) = 2
    /\ objectslist[1].hasPath /\ ~Inactive(objectslist[1])
    /\ objectslist[1].Commands # <<>>
    /\ ~objectslist[2].hasPath /\ Inactive(objectslist[2])

\* the passes of the loop of parse made in the run, over all objects
AllSteps ==
    UNION { { runlog[k].steps[j] : j \in 1..Len(runlog[k].steps) } : k \in 1..Len(runlog) }

\* the dwell line of the configured pierce delay
DwellLine == "G4 P" \o PIERCE_DELAY \o " (Pierce delay)"

InjectedLine(l) == l \in {TorchOn, TorchOff, DwellLine}

NotInjected(l) == ~InjectedLine(l)

\* the lines a pass added for the command itself
OwnLines(step) == SelectSeq(step.emitted, NotInjected)

IgnoreSet == {"M3", "M4", "M5", "G17", "G18", "G19", "G43"}

CustomNames == {"CustomCommand", "CustomCommandG1", "CustomCommandFoo"}

SpecialNames == {"M100", "M101"}

\* the command goes through the generic rule
Generic(c) == c.Name \notin IgnoreSet \cup CustomNames \cup SpecialNames

\* torch-on lines less torch-off lines among the first k lines
Balance(lines, k) == CountUpTo(lines, k, TorchOn) - CountUpTo(lines, k, TorchOff)

\* C14: a command of the ignore-set adds no line and leaves the torch state
\* as it was, whatever its parameters and the torch state.
C14_IgnoredIsSilent ==
    Returned =>
        \A st \in AllSteps :
            st.command.Name \in IgnoreSet => (st.emitted = <<>> /\ st.cutting = st.before)

\* an ignored command with a tracked parameter, met with the torch engaged
C14_Witness ==
    /\ Returned
    /\ \E st \in AllSteps :
          /\ st.command.Name \in IgnoreSet
          /\ st.command.Parameters # <<>>
          /\ st.before

\* C15: a custom command and a special plasma command each add exactly one
\* line, none of it a torch-on, dwell or torch-off line, and leave the torch
\* state as it was.
C15_CustomAndSpecialOneLine ==
    Returned =>
        \A st \in AllSteps :
            st.command.Name \in CustomNames \cup SpecialNames =>
                /\ Len(st.emitted) = 1
                /\ NotInjected(st.emitted[1])
                /\ st.cutting = st.before

\* a custom command named after a cutting code met with the torch off, and a
\* special command without parameters
C15_Witness ==
    /\ Returned
    /\ \E st \in AllSteps : st.command.Name = "CustomCommandG1" /\ ~st.before
    /\ \E st \in AllSteps : st.command.Name \in SpecialNames /\ st.command.Parameters = <<>>

\* the lines of rapid moves: those of the G0 commands of the run and the one
\* of the default postamble
RapidLines ==
    UNION { { OwnLines(st)[i] : i \in 1..Len(OwnLines(st)) } :
              st \in { t \in AllSteps : t.command.Name = "G0" } }
      \cup {"G0 X0 Y0 (Return home)"}

\* C16: no rapid line is emitted with the torch engaged, every G0 command
\* leaves the torch disengaged, and the torch is disengaged where the
\* postamble begins.
C16_TorchOffBeforeRapidAndEnd ==
    Returned =>
        LET ls   == Lines(gcode)
            body == Len(ls) - Len(Lines(PostamblePart(Globals)))
        IN  /\ \A j \in 1..Len(ls) : ls[j] \in RapidLines => Balance(ls, j - 1) <= 0
            /\ \A st \in AllSteps : st.command.Name = "G0" => ~st.cutting
            /\ Balance(ls, body) = 0

\* a rapid move with a line of its own met with the torch engaged, in an
\* object that ends with the torch engaged
C16_Witness ==
    /\ Returned
    /\ \E k \in 1..Len(runlog) :
          /\ runlog[k].end
          /\ \E j \in 1..Len(runlog[k].steps) :
                LET st == runlog[k].steps[j]
                IN  st.command.Name = "G0" /\ st.before /\ OwnLines(st) # <<>>

\* C17: a cutting motion met with the torch off adds one torch-on line, then
\* one dwell line with the configured pierce delay, then at most its own
\* line, and engages the torch; met with the torch engaged it adds neither.
C17_PierceBeforeCut ==
    Returned =>
        \A st \in AllSteps :
            st.command.Name \in CuttingNames =>
                IF ~st.before
                THEN /\ Len(st.emitted) >= 2
                     /\ st.emitted[1] = TorchOn
                     /\ st.emitted[2] = DwellLine
                     /\ SubSeq(st.emitted, 3, Len(st.emitted)) = OwnLines(st)
                     /\ st.cutting
                ELSE /\ st.emitted = OwnLines(st)
                     /\ st.cutting

\* a cutting motion met with the torch off under a pierce delay of 2 s, and
\* one met with the torch engaged
C17_Witness ==
    /\ Returned
    /\ PIERCE_DELAY = "2.0"
    /\ \E st \in AllSteps : st.command.Name \in CuttingNames /\ ~st.before
    /\ \E st \in AllSteps : st.command.Name \in CuttingNames /\ st.before

\* a parameter of the command is collected: X, Y, I or J is present, or F is
\* present with a value above zero
Collected(c) ==
    \/ \E l \in {"X", "Y", "I", "J"} : HasParam(c, l)
    \/ HasParam(c, "F") /\ Param(c, "F") > 0

\* C18: under the generic rule the command gets a line of its own exactly
\* when a parameter was collected; without one the torch transition and its
\* lines take place all the same.
C18_LineIffCollected ==
    Returned =>
        \A st \in AllSteps :
            Generic(st.command) =>
                /\ Len(OwnLines(st)) = (IF Collected(st.command) THEN 1 ELSE 0)
                /\ (st.command.Name \in CuttingNames /\ ~st.before)
                      => (st.cutting /\ Len(st.emitted) >= 2
                            /\ st.emitted[1] = TorchOn /\ st.emitted[2] = DwellLine)
                /\ (st.command.Name = "G0" /\ st.before)
                      => (~st.cutting /\ st.emitted # <<>> /\ st.emitted[1] = TorchOff)

\* a cutting motion without parameters met with the torch off, and a command
\* whose only parameter is a feed rate of zero
C18_Witness ==
    /\ Returned
    /\ \E st \in AllSteps :
          st.command = Cmd("G1", <<>>) /\ ~st.before /\ st.emitted = <<TorchOn, DwellLine>>
    /\ \E st \in AllSteps : st.command = Cmd("G1", << <<"F", 0>> >>)

CutLines(k) ==
    UNION { { OwnLines(st)[i] : i \in 1..Len(OwnLines(st)) } :
              st \in { runlog[k].steps[j] : j \in { n \in 1..Len(runlog[k].steps) :
                          runlog[k].steps[n].command.Name \in CuttingNames } } }

\* C20: every line of a cutting motion comes with the torch engaged: the
\* torch lines before it hold one torch-on more than torch-offs.
C20_CutOnlyWithTorchOn ==
    Returned =>
        \A k \in 1..Len(runlog) :
            LET out == runlog[k].out
            IN  \A j \in 1..Len(out) : out[j] \in CutLines(k) => Balance(out, j - 1) = 1

\* a cutting motion with a line of its own, met with the torch off right
\* after a command outside the generic rule
C20_Witness ==
    /\ Returned
    /\ \E k \in 1..Len(runlog) :
          \E j \in 2..Len(runlog[k].steps) :
              LET st == runlog[k].steps[j]
              IN  /\ st.command.Name \in CuttingNames
                  /\ OwnLines(st) # <<>>
                  /\ ~st.before
                  /\ ~Generic(runlog[k].steps[j - 1].command)

====
